---- MODULE Spec2Model ----
(***************************************************************************)
(* Funding-interval engine of the exchange adapters (Aster, Binance,       *)
(* Hyperliquid, Paradex).                                                  *)
(*                                                                         *)
(* Units.  A next-funding time is an integer number of milliseconds.  An   *)
(* interval in hours is kept as the integer number of milliseconds it      *)
(* lasts (hours * 3,600,000), so 1.0 h = 3600000, 0.25 h = 900000 and the  *)
(* snap thresholds 7.9999 h / 8.001 h are 28799640 / 28803600: every       *)
(* threshold of the code is a whole number of milliseconds and the float   *)
(* division diff / 3_600_000 is compared exactly.  None (Python's None) is *)
(* -1 and an unparseable field is -2; timestamps and hours are >= 0.       *)
(***************************************************************************)
EXTENDS Integers, Sequences, FiniteSets, TLC

\* ------------------------------------------------------------ constants
MsPerHour == 3600000

MIN_INTERVAL_H == 1 * MsPerHour

MAX_INTERVAL_H == 8 * MsPerHour

None == 0 - 1

Bad == 0 - 2

H(n) == n * MsPerHour

\* tenths of a thousandth of an hour: Frac(79999) is 7.9999 h
Frac(n) == n * 360

abs(x) == IF x < 0 THEN 0 - x ELSE x

max(a, b) == IF a >= b THEN a ELSE b

min(a, b) == IF a <= b THEN a ELSE b

\* ------------------------------------------------------------ dicts
EmptyDict == [k \in {} |-> None]

\* dict.get(k): None when the key is absent
Get(d, k) == IF k \in DOMAIN d THEN d[k] ELSE None

\* d[k] = v
Put(d, k, v) == [x \in (DOMAIN d) \cup {k} |-> IF x = k THEN v ELSE d[x]]

\* ------------------------------------------------------------ symbols
SYMBOLS == {"BTCUSDT", "ETHUSDT"}

\* symbols as callers, payloads and files spell them
RawSymbols == {"btcusdt", "BTCUSDT", "ETHUSDT", "ethusdt"}

\* str.upper()
normalize_symbol(symbol) ==
    IF symbol = "btcusdt" THEN "BTCUSDT"
    ELSE IF symbol = "ethusdt" THEN "ETHUSDT"
    ELSE symbol

\* ------------------------------------------------------------ engine
snap_hours(hrs) ==
    IF Frac(79999) < hrs /\ hrs < Frac(80010) THEN H(8)
    ELSE IF Frac(39999) < hrs /\ hrs < Frac(40010) THEN H(4)
    ELSE IF Frac(9999) < hrs /\ hrs < Frac(10010) THEN H(1)
    ELSE hrs

\* Variant of closest_standard that keeps the hours as they are (C17 depends
\* on the closest standard value being taken after the snap, C32 on inference
\* yielding standard values only).
closest_standard_identity(hrs) == hrs

\* Variant of closest_standard without the 1.0 candidate (C5 depends on all
\* three standard values being candidates).
closest_standard_without_one(hrs) ==
    IF abs(H(4) - hrs) <= abs(H(8) - hrs) THEN H(4) ELSE H(8)

\* min((1.0, 4.0, 8.0), key=|h - hrs|): the first minimal candidate wins a tie
closest_standard(hrs) ==
    IF abs(H(1) - hrs) <= abs(H(4) - hrs) /\ abs(H(1) - hrs) <= abs(H(8) - hrs)
    THEN H(1)
    ELSE IF abs(H(4) - hrs) <= abs(H(8) - hrs) THEN H(4)
    ELSE H(8)

\* Variant of clamp_hours without the lower bound (C30 depends on a short
\* delta being raised to 1.0).
clamp_hours_from_above(hrs) == min(MAX_INTERVAL_H, hrs)

\* max(MIN_INTERVAL_H, min(MAX_INTERVAL_H, hrs))
clamp_hours(hrs) == max(MIN_INTERVAL_H, min(MAX_INTERVAL_H, hrs))

\* catchup_flags.get(symbol) taken as a truth value
FlagSet(flags, symbol) == symbol \in DOMAIN flags /\ flags[symbol]

QUARTER_H == Frac(2500)

CEILING_H == Frac(82500)

\* ------------------------------------------------------------ state
VARIABLES
    venue,                  \* which adapter this instance is
    profile,                \* how the venue behaves
    interval_cache,         \* self.interval_cache: symbol -> hours
    cache_dirty,            \* self._cache_dirty
    last_next_funding_map,  \* self.last_next_funding_map: symbol -> ms
    last_next_dirty,        \* self._last_next_dirty
    invalid_symbol_cache,   \* self.invalid_symbol_cache (Aster)
    invalid_cache_dirty,    \* self._invalid_cache_dirty (Aster)
    catchup_flags,          \* self.catchup_flags: symbol -> bool
    cache_file,             \* content of <exchange>_intervals.json
    last_next_file,         \* content of <exchange>_last_next.json
    invalid_cache_file,     \* content of aster_invalid_symbols.json
    wrote,                  \* files written by the last operation
    tasks,                  \* enrich tasks of the bulk poll in flight
    ev,                     \* the resolution the last step performed
    result                  \* outcome of the last finished operation

vars == <<venue, profile, interval_cache, cache_dirty, last_next_funding_map,
          last_next_dirty, invalid_symbol_cache, invalid_cache_dirty,
          catchup_flags, cache_file, last_next_file, invalid_cache_file,
          wrote, tasks, ev, result>>

\* the adapter's fields and files as one record, threaded through a handler
Self ==
    [interval_cache |-> interval_cache, cache_dirty |-> cache_dirty,
     last_next_funding_map |-> last_next_funding_map,
     last_next_dirty |-> last_next_dirty,
     invalid_symbol_cache |-> invalid_symbol_cache,
     invalid_cache_dirty |-> invalid_cache_dirty,
     catchup_flags |-> catchup_flags,
     cache_file |-> cache_file, last_next_file |-> last_next_file,
     invalid_cache_file |-> invalid_cache_file, wrote |-> {}]

Store(self) ==
    /\ interval_cache' = self.interval_cache
    /\ cache_dirty' = self.cache_dirty
    /\ last_next_funding_map' = self.last_next_funding_map
    /\ last_next_dirty' = self.last_next_dirty
    /\ invalid_symbol_cache' = self.invalid_symbol_cache
    /\ invalid_cache_dirty' = self.invalid_cache_dirty
    /\ catchup_flags' = self.catchup_flags
    /\ cache_file' = self.cache_file
    /\ last_next_file' = self.last_next_file
    /\ invalid_cache_file' = self.invalid_cache_file
    /\ wrote' = self.wrote

\* ------------------------------------------------------------ caches
\* _load_cache, line 38: float(v) is not guarded, a value that is no number
\* (Bad) raises out of the constructor
load_cache_raises(file) == \E k \in DOMAIN file : file[k] = Bad

\* Variant of load_cache that keeps values outside [MIN, MAX] (C18 depends
\* on the range filter of the load).
load_cache_unfiltered(file) ==
    [s \in {normalize_symbol(k) : k \in DOMAIN file} |->
        file[CHOOSE k \in DOMAIN file : normalize_symbol(k) = s]]

\* _load_cache: keys upper-cased, values outside [MIN, MAX] dropped
load_cache(file) ==
    LET keep == {k \in DOMAIN file :
                    MIN_INTERVAL_H <= file[k] /\ file[k] <= MAX_INTERVAL_H}
    IN [s \in {normalize_symbol(k) : k \in keep} |->
            file[CHOOSE k \in keep : normalize_symbol(k) = s]]

\* _load_last_next: keys upper-cased, int(v) kept
load_last_next(file) ==
    LET keep == {k \in DOMAIN file : file[k] # Bad}
    IN [s \in {normalize_symbol(k) : k \in keep} |->
            file[CHOOSE k \in keep : normalize_symbol(k) = s]]

\* an item of the invalid-symbols array that is no string (a number)
NonString == "<42>"

\* _load_invalid_cache: the strings of the array, upper-cased
load_invalid_cache(file) == {normalize_symbol(s) : s \in file \ {NonString}}

save_cache(self) ==
    IF ~self.cache_dirty THEN self
    ELSE [self EXCEPT !.cache_file = self.interval_cache,
                      !.cache_dirty = FALSE,
                      !.wrote = @ \cup {"intervals"}]

save_last_next(self) ==
    IF ~self.last_next_dirty THEN self
    ELSE [self EXCEPT !.last_next_file = self.last_next_funding_map,
                      !.last_next_dirty = FALSE,
                      !.wrote = @ \cup {"last_next"}]

\* Variant of save_invalid_cache that drops the dirty flag without writing
\* the file (C12 depends on the write).
save_invalid_cache_unwritten(self) ==
    [self EXCEPT !.invalid_cache_dirty = FALSE]

save_invalid_cache(self) ==
    IF ~self.invalid_cache_dirty THEN self
    ELSE [self EXCEPT !.invalid_cache_file = self.invalid_symbol_cache,
                      !.invalid_cache_dirty = FALSE,
                      !.wrote = @ \cup {"invalid"}]

get_cached_interval(self, symbol) ==
    LET hrs == Get(self.interval_cache, normalize_symbol(symbol))
    IN IF hrs = None THEN None
       ELSE IF hrs < MIN_INTERVAL_H \/ hrs > MAX_INTERVAL_H THEN None
       ELSE hrs

\* Variant of set_cached_interval that stores nothing (C27 depends on an
\* inferred interval being cached).
set_cached_interval_unwritten(self, symbol, hrs) == self

set_cached_interval(self, symbol, hrs) ==
    [self EXCEPT !.interval_cache =
                     Put(@, normalize_symbol(symbol), clamp_hours(hrs)),
                 !.cache_dirty = TRUE]

\* Variant of add_invalid_symbol that marks nothing (C11 depends on a
\* rejected symbol entering the set).
add_invalid_symbol_noop(self, symbol) == self

add_invalid_symbol(self, symbol) ==
    LET sym == normalize_symbol(symbol)
    IN IF sym \notin self.invalid_symbol_cache
       THEN [self EXCEPT !.invalid_symbol_cache = @ \cup {sym},
                         !.invalid_cache_dirty = TRUE]
       ELSE self

\* ------------------------------------------------------------ inference
\* Variant of record_next that marks the ledger dirty without storing the
\* observation (C14 depends on the store).
record_next_dirty_only(self, symbol, nxt) ==
    [self EXCEPT !.last_next_dirty = TRUE]

\* Variant of record_next that starts the ledger afresh (C22 depends on a
\* store keeping the entries of the other symbols).
record_next_forgetting(self, symbol, nxt) ==
    [self EXCEPT !.last_next_funding_map = Put(EmptyDict, symbol, nxt),
                 !.last_next_dirty = TRUE]

\* Variant of record_next that stores the observation without marking the
\* ledger dirty (C29 depends on every change setting its dirty flag).
record_next_unflagged(self, symbol, nxt) ==
    [self EXCEPT !.last_next_funding_map = Put(@, symbol, nxt)]

\* self.last_next_funding_map[symbol] = nxt; self._last_next_dirty = True
record_next(self, symbol, nxt) ==
    [self EXCEPT !.last_next_funding_map = Put(@, symbol, nxt),
                 !.last_next_dirty = TRUE]

\* Variant of clear_catchup that leaves the flag as it is (C4 depends on the
\* recovery branch clearing it).
keep_catchup(self, symbol) == self

\* self.catchup_flags[symbol] = False
clear_catchup(self, symbol) ==
    [self EXCEPT !.catchup_flags = Put(@, symbol, FALSE)]

\* Variant of set_catchup that raises no flag (C23 depends on an anomaly
\* raising the catch-up flag).
set_catchup_skipped(self, symbol) == self

\* self.catchup_flags[symbol] = True
set_catchup(self, symbol) ==
    [self EXCEPT !.catchup_flags = Put(@, symbol, TRUE)]

\* Aster: close_enough = abs(snapped - hrs) < 0.25 and hrs <= 8.25
aster_close_enough(snapped, hrs) ==
    abs(snapped - hrs) < QUARTER_H /\ hrs <= CEILING_H

\* Variant of infer_interval without the "next has not moved" return and
\* with diff < 0 for diff <= 0 (C7 depends on an unchanged next-funding time
\* teaching nothing).
infer_interval_unguarded(self, symbol, nxtField) ==
    IF nxtField = None \/ nxtField = Bad THEN [ret |-> None, self |-> self]
    ELSE
    LET nxt == nxtField
        prev_nxt == Get(self.last_next_funding_map, symbol)
        s1 == record_next(self, symbol, nxt)
        diff == nxt - prev_nxt
        hrs == clamp_hours(diff)
        snapped == closest_standard(snap_hours(hrs))
        close_enough == aster_close_enough(snapped, hrs)
    IN IF prev_nxt = None THEN [ret |-> None, self |-> s1]
       ELSE IF diff < 0 THEN [ret |-> None, self |-> s1]
       ELSE IF FlagSet(self.catchup_flags, symbol) /\ close_enough
       THEN [ret |-> snapped, self |-> clear_catchup(s1, symbol)]
       ELSE IF close_enough THEN [ret |-> snapped, self |-> s1]
       ELSE [ret |-> None, self |-> set_catchup(s1, symbol)]

\* Aster._infer_interval.  nxtField is item.get("nextFundingTime"):
\* None, Bad (int() raises inside the try) or a timestamp.
infer_interval(self, symbol, nxtField) ==
    IF nxtField = None \/ nxtField = Bad THEN [ret |-> None, self |-> self]
    ELSE
    LET nxt == nxtField
        prev_nxt == Get(self.last_next_funding_map, symbol)
        s1 == record_next(self, symbol, nxt)
        diff == nxt - prev_nxt
        hrs == clamp_hours(diff)
        snapped == closest_standard(snap_hours(hrs))
        close_enough == aster_close_enough(snapped, hrs)
    IN IF prev_nxt = None \/ prev_nxt = nxt THEN [ret |-> None, self |-> s1]
       ELSE IF diff <= 0 THEN [ret |-> None, self |-> s1]
       ELSE IF FlagSet(self.catchup_flags, symbol) /\ close_enough
       THEN [ret |-> snapped, self |-> clear_catchup(s1, symbol)]
       ELSE IF close_enough THEN [ret |-> snapped, self |-> s1]
       ELSE [ret |-> None, self |-> set_catchup(s1, symbol)]

\* Variant of infer_interval_from_payload whose recovery branch takes whatever
\* delta it meets while the catch-up flag is set (C31 depends on the flag
\* deciding nothing but its own clearing).
infer_interval_from_payload_recover_any(self, symbol, nxtField, cached) ==
    IF nxtField = None \/ nxtField = Bad THEN [ret |-> cached, self |-> self]
    ELSE
    LET nxt == nxtField
        prev_nxt == Get(self.last_next_funding_map, symbol)
        s1 == record_next(self, symbol, nxt)
        diff_prev == abs(nxt - prev_nxt)
        hrs == clamp_hours(diff_prev)
        snapped == closest_standard(snap_hours(hrs))
        close_enough == abs(snapped - hrs) < QUARTER_H
    IN IF prev_nxt = None \/ prev_nxt = nxt THEN [ret |-> cached, self |-> s1]
       ELSE IF diff_prev <= 0 THEN [ret |-> cached, self |-> s1]
       ELSE IF FlagSet(self.catchup_flags, symbol)
       THEN [ret |-> snapped, self |-> clear_catchup(s1, symbol)]
       ELSE IF close_enough /\ hrs <= CEILING_H
       THEN [ret |-> snapped, self |-> s1]
       ELSE [ret |-> cached, self |-> set_catchup(s1, symbol)]

\* Binance._infer_interval_from_payload: falls back to `cached`, not None
infer_interval_from_payload(self, symbol, nxtField, cached) ==
    IF nxtField = None \/ nxtField = Bad THEN [ret |-> cached, self |-> self]
    ELSE
    LET nxt == nxtField
        prev_nxt == Get(self.last_next_funding_map, symbol)
        s1 == record_next(self, symbol, nxt)
        diff_prev == abs(nxt - prev_nxt)
        hrs == clamp_hours(diff_prev)
        snapped == closest_standard(snap_hours(hrs))
        close_enough == abs(snapped - hrs) < QUARTER_H
    IN IF prev_nxt = None \/ prev_nxt = nxt THEN [ret |-> cached, self |-> s1]
       ELSE IF diff_prev <= 0 THEN [ret |-> cached, self |-> s1]
       ELSE IF FlagSet(self.catchup_flags, symbol) /\ close_enough
       THEN [ret |-> snapped, self |-> clear_catchup(s1, symbol)]
       ELSE IF close_enough /\ hrs <= CEILING_H
       THEN [ret |-> snapped, self |-> s1]
       ELSE [ret |-> cached, self |-> set_catchup(s1, symbol)]

\* ------------------------------------------------------------ validity
\* Variant of discard_invalid_symbol that leaves the set alone (C13 depends
\* on a 200 answer un-marking the symbol).
discard_invalid_symbol_keep(self, norm_symbol) == self

\* lines 195-197: a symbol the venue answers 200 for is valid again
discard_invalid_symbol(self, norm_symbol) ==
    IF norm_symbol \in self.invalid_symbol_cache
    THEN [self EXCEPT !.invalid_symbol_cache = @ \ {norm_symbol},
                      !.invalid_cache_dirty = TRUE]
    ELSE self

\* Aster._is_symbol_valid -> [raised, ret, self]
is_symbol_valid(self, symbol, resp) ==
    LET norm_symbol == normalize_symbol(symbol)
    IN IF resp = "raise" THEN [raised |-> TRUE, ret |-> FALSE, self |-> self]
       ELSE IF resp = "200"
       THEN [raised |-> FALSE, ret |-> TRUE,
             self |-> discard_invalid_symbol(self, norm_symbol)]
       ELSE IF resp = "400" \/ resp = "marker"
       THEN [raised |-> FALSE, ret |-> FALSE,
             self |-> add_invalid_symbol(self, norm_symbol)]
       ELSE [raised |-> FALSE,
             ret |-> norm_symbol \notin self.invalid_symbol_cache,
             self |-> self]

\* ------------------------------------------------------------ resolution
\* Variant of aster_single_resolve whose default is MIN_INTERVAL_H (C16
\* depends on the conservative default being 8.0).
aster_single_resolve_min_default(self, symbol, nxtField) ==
    LET cached == get_cached_interval(self, symbol)
        inf == infer_interval(self, symbol, nxtField)
        out(h, s) == [interval_hours |-> h, self |-> s,
                      cached |-> cached, inferred |-> inf.ret]
    IN IF inf.ret # None
       THEN out(inf.ret, set_cached_interval(inf.self, symbol, inf.ret))
       ELSE IF cached # None THEN out(cached, inf.self)
       ELSE out(MIN_INTERVAL_H, inf.self)

\* Aster.get_funding_rate, lines 238-246
aster_single_resolve(self, symbol, nxtField) ==
    LET cached == get_cached_interval(self, symbol)
        inf == infer_interval(self, symbol, nxtField)
        out(h, s) == [interval_hours |-> h, self |-> s,
                      cached |-> cached, inferred |-> inf.ret]
    IN IF inf.ret # None
       THEN out(inf.ret, set_cached_interval(inf.self, symbol, inf.ret))
       ELSE IF cached # None THEN out(cached, inf.self)
       ELSE out(MAX_INTERVAL_H, inf.self)

\* Variant of aster_bulk_resolve that works on the caches as they were when
\* they were last loaded or flushed and writes them back whole (C24 depends on
\* the compound update reading and writing the caches of the moment).
aster_bulk_resolve_stale(self, symbol, nxtField) ==
    LET old == [self EXCEPT
                   !.interval_cache = load_cache(self.cache_file),
                   !.last_next_funding_map = load_last_next(self.last_next_file)]
        cached == get_cached_interval(old, symbol)
        inf == infer_interval(old, symbol, nxtField)
        out(h, s) == [interval_hours |-> h, self |-> s,
                      cached |-> cached, inferred |-> inf.ret]
    IN IF inf.ret # None
       THEN out(inf.ret, set_cached_interval(inf.self, symbol, inf.ret))
       ELSE IF cached # None THEN out(cached, inf.self)
       ELSE out(MAX_INTERVAL_H, inf.self)

\* Aster.get_all_funding_rates.enrich, lines 284-292
aster_bulk_resolve(self, symbol, nxtField) ==
    LET cached == get_cached_interval(self, symbol)
        inf == infer_interval(self, symbol, nxtField)
        out(h, s) == [interval_hours |-> h, self |-> s,
                      cached |-> cached, inferred |-> inf.ret]
    IN IF inf.ret # None
       THEN out(inf.ret, set_cached_interval(inf.self, symbol, inf.ret))
       ELSE IF cached # None THEN out(cached, inf.self)
       ELSE out(MAX_INTERVAL_H, inf.self)

\* Binance.get_funding_rate, lines 218-226
binance_single_resolve(self, symbol, nxtField) ==
    LET cached == get_cached_interval(self, symbol)
        inf == infer_interval_from_payload(self, symbol, nxtField, cached)
        out(h, s) == [interval_hours |-> h, self |-> s,
                      cached |-> cached, inferred |-> inf.ret]
    IN IF inf.ret # None
       THEN out(inf.ret, set_cached_interval(inf.self, symbol, inf.ret))
       ELSE IF cached # None THEN out(cached, inf.self)
       ELSE out(MAX_INTERVAL_H, inf.self)

\* Variant of binance_bulk_resolve that prefers the cached interval to the
\* inferred one (C2 depends on the order inferred > cached > default).
binance_bulk_resolve_cached_first(self, symbol, nxtField) ==
    LET cached == get_cached_interval(self, symbol)
        inf == infer_interval_from_payload(self, symbol, nxtField, cached)
        out(h, s) == [interval_hours |-> h, self |-> s,
                      cached |-> cached, inferred |-> inf.ret]
    IN IF cached # None THEN out(cached, inf.self)
       ELSE IF inf.ret # None
       THEN out(inf.ret, set_cached_interval(inf.self, symbol, inf.ret))
       ELSE out(MAX_INTERVAL_H, inf.self)

\* Binance.get_all_funding_rates.enrich, lines 259-267
binance_bulk_resolve(self, symbol, nxtField) ==
    LET cached == get_cached_interval(self, symbol)
        inf == infer_interval_from_payload(self, symbol, nxtField, cached)
        out(h, s) == [interval_hours |-> h, self |-> s,
                      cached |-> cached, inferred |-> inf.ret]
    IN IF inf.ret # None
       THEN out(inf.ret, set_cached_interval(inf.self, symbol, inf.ret))
       ELSE IF cached # None THEN out(cached, inf.self)
       ELSE out(MAX_INTERVAL_H, inf.self)

\* ------------------------------------------------------------ inputs
(***************************************************************************)
(* The venue comes in profiles, fixed when the adapter is constructed.      *)
(*   "engine": one symbol, never rejected, well-formed payloads, and a     *)
(*             rich set of next-funding times;                             *)
(*   "faults": two symbols, requests that fail and malformed payloads     *)
(*             (transport errors, error statuses, missing or unparseable   *)
(*             fields), and one next-funding time;                         *)
(*   "rejections": two symbols, validity requests answered 200, 400, with  *)
(*             "Invalid symbol" or 5xx, well-formed payloads, and one      *)
(*             next-funding time;                                          *)
(*   "load":   one symbol, nothing fails, and bulk payloads with more      *)
(*             items than either semaphore admits;                         *)
(*   "overload": the bulk payloads of "load", validity requests that are   *)
(*             answered 400 or fail, and items with missing fields;        *)
(*   "every1h", "every4h", "every8h": one symbol, nothing fails, and a     *)
(*             venue that settles every 1, 4 or 8 hours and is polled at   *)
(*             least once between two settlements.                         *)
(***************************************************************************)
\* the venues that settle on a fixed schedule
Schedules == {"every1h", "every4h", "every8h"}

Profiles == {"engine", "faults", "rejections", "load", "overload"} \cup Schedules

\* the profiles in which no request fails and every payload is well formed
Sound == Profiles \ {"faults", "rejections", "overload"}

\* hours between two settlements of a scheduled venue
Period(p) ==
    IF p = "every1h" THEN H(1) ELSE IF p = "every4h" THEN H(4) ELSE H(8)

\* the next-funding time a scheduled venue shows at the adapter's first poll
FirstNext == H(8)

\* settlements a scheduled venue goes through
MaxSettlements == 3

\* next-funding times of the engine profile (ms).  From 0 they are 10 min,
\* 0.9996 h, 1 h, 2 h, 4 h, 4.0006 h, 6 h, 7.9999 h, 8 h, 12 h, 20 h and 28 h
\* away.
Times ==
    {0, 600000, Frac(9996), H(1), H(2), H(4), Frac(40006), H(6), Frac(79999),
     H(8), H(12), H(20), H(28)}

\* the nextFundingTime field of a payload: absent/null (None), unparseable
\* (Bad), or a time
NxtOf(p) ==
    IF p = "engine" THEN Times \cup {None}
    ELSE IF p \in {"load", "overload"} THEN {H(8)}
    ELSE IF p = "rejections" THEN {None, H(8)}
    ELSE {None, Bad, H(8)}

\* What the venue shows as the symbol's nextFundingTime.  A scheduled venue
\* shows the time of its next settlement: the one the adapter saw at its last
\* poll, or, one settlement later, that time plus the period.
VenueNext(p, symbol) ==
    IF p \in Schedules
    THEN LET seen == Get(last_next_funding_map, symbol)
         IN IF seen = None THEN {FirstNext}
            ELSE {seen} \cup
                 (IF seen < FirstNext + MaxSettlements * Period(p)
                  THEN {seen + Period(p)} ELSE {})
    ELSE NxtOf(p)

\* What the per-symbol premiumIndex request can do: answer 200, answer 400,
\* answer another status with "Invalid symbol" in the body, answer another
\* status without it (5xx), or raise (timeout, connection error).
ValidityResponses == {"200", "400", "marker", "5xx", "raise"}

ValidityOf(p) ==
    IF p \in Sound THEN {"200"}
    ELSE IF p = "faults" THEN {"200", "raise"}
    ELSE IF p = "overload" THEN {"400", "raise"}
    ELSE ValidityResponses \ {"raise"}

\* whether lastFundingRate and time are present and parse
FieldsOf(p) == IF p \in {"faults", "overload"} THEN BOOLEAN ELSE {TRUE}

\* what the primary request of an operation can do besides answering 200
ErrorsOf(p) ==
    IF p = "faults" THEN {"API error", "transport", "payload"} ELSE {}

\* symbols a caller asks get_funding_rate for
QuerySymbols(p) ==
    IF p = "engine" THEN {"btcusdt", "BTCUSDT"}
    ELSE IF p \in Sound \cup {"overload"} THEN {"btcusdt"}
    ELSE {"btcusdt", "ETHUSDT"}

\* symbols of the items of a bulk payload
BulkSymbols(p) == IF p \in Sound THEN {"btcusdt"} ELSE {"btcusdt", "ETHUSDT"}

\* largest number of items in a bulk payload
MaxItems == 2

\* number of items in a bulk payload of the load profile
MaxLoad == 6

\* positions of the items of a bulk payload
TaskIds == 1..max(MaxItems, MaxLoad)

BulkPayloads(p) ==
    IF p \in {"load", "overload"} THEN {[i \in 1..MaxLoad |-> "btcusdt"]}
    ELSE UNION {[1..n -> BulkSymbols(p)] :
                   n \in 0..(IF p \in Sound THEN 1 ELSE MaxItems)}

\* nextFundingTime of the emitted record: int(x) if x else None
emitted_next(nxtField) == IF nxtField = None \/ nxtField = 0 THEN None ELSE nxtField

\* ------------------------------------------------------------ outcomes
\* What the last step resolved: on which path, for which symbol, what it found
\* (the ledger entry prev, the cached interval, the catch-up flag), the
\* nextFundingTime it observed (nxt) and the interval it emitted.
\* validity is the answer the step got to its validity request ("" when it
\* sent none).
NoEv == [kind |-> "none", symbol |-> "", prev |-> None, cached |-> None,
         catchup |-> FALSE, nxt |-> None, interval_hours |-> None,
         validity |-> ""]

\* the step asked the venue about symbol, got v, and resolved no interval
Checked(symbol, v) == [NoEv EXCEPT !.symbol = symbol, !.validity = v]

Resolved(kind, symbol, nxtField, r) ==
    [kind |-> kind, symbol |-> symbol,
     prev |-> Get(last_next_funding_map, symbol), cached |-> r.cached,
     catchup |-> FlagSet(catchup_flags, symbol), nxt |-> nxtField,
     interval_hours |-> r.interval_hours, validity |-> ""]

FundingRecord(exchange, symbol, nxtField, interval_hours) ==
    [exchange |-> exchange, symbol |-> symbol,
     nextFundingTime |-> emitted_next(nxtField),
     interval_hours |-> interval_hours]

Returned(op, records) ==
    [op |-> op, status |-> "ok", error |-> "", records |-> records]

Raised(op, error) ==
    [op |-> op, status |-> "raised", error |-> error, records |-> <<>>]

\* ------------------------------------------------------------ single symbol
\* __init__ returned: the adapter exists
Constructed == ~(result.op = "init" /\ result.status = "raised")

\* The rate request answered 200 with a body whose nextFundingTime is
\* nxtField; fields_ok says whether lastFundingRate and time are present and
\* parse.  Aster.get_funding_rate, lines 225-257.
AsterRateBody(self, norm_symbol, v, nxtField, fields_ok) ==
    LET r == aster_single_resolve(self, norm_symbol, nxtField)
        op == "get_funding_rate"
    IN IF nxtField = Bad
       THEN /\ Store(self) /\ ev' = Checked(norm_symbol, v)
            /\ result' = Raised(op, "payload")
       ELSE /\ Store(save_last_next(r.self))
            /\ ev' = [Resolved("single", norm_symbol, nxtField, r)
                         EXCEPT !.validity = v]
            /\ result' = IF fields_ok
                         THEN Returned(op, <<FundingRecord("Aster",
                                  norm_symbol, nxtField, r.interval_hours)>>)
                         ELSE Raised(op, "payload")

\* Aster.get_funding_rate(symbol).  v answers the validity request.
AsterGetFundingRate ==
    /\ venue = "Aster"
    /\ Constructed
    /\ tasks = <<>>
    /\ \E symbol \in QuerySymbols(profile), v \in ValidityOf(profile) :
        LET norm_symbol == normalize_symbol(symbol)
            val == is_symbol_valid(Self, norm_symbol, v)
            op == "get_funding_rate"
        IN IF val.raised
           THEN /\ Store(val.self) /\ ev' = Checked(norm_symbol, v)
                /\ result' = Raised(op, "transport")
           ELSE IF ~val.ret
           THEN /\ Store(save_invalid_cache(val.self))
                /\ ev' = Checked(norm_symbol, v)
                /\ result' = Raised(op, "symbol invalid")
           ELSE \/ /\ "API error" \in ErrorsOf(profile)
                   /\ Store(val.self) /\ ev' = Checked(norm_symbol, v)
                   /\ result' = Raised(op, "API error")
                \/ \E nxtField \in VenueNext(profile, norm_symbol),
                     fields_ok \in FieldsOf(profile) :
                       /\ nxtField = Bad => fields_ok
                       /\ AsterRateBody(val.self, norm_symbol, v, nxtField,
                                        fields_ok)
    /\ UNCHANGED <<venue, profile, tasks>>

\* Binance.get_funding_rate, lines 212-239
BinanceRateBody(self, norm_symbol, nxtField, fields_ok) ==
    LET r == binance_single_resolve(self, norm_symbol, nxtField)
        op == "get_funding_rate"
    IN IF nxtField = Bad
       THEN /\ Store(self) /\ ev' = NoEv /\ result' = Raised(op, "payload")
       ELSE /\ Store(save_last_next(save_cache(r.self)))
            /\ ev' = Resolved("single", norm_symbol, nxtField, r)
            /\ result' = IF fields_ok
                         THEN Returned(op, <<FundingRecord("Binance",
                                  norm_symbol, nxtField, r.interval_hours)>>)
                         ELSE Raised(op, "payload")

\* Binance.get_funding_rate(symbol)
BinanceGetFundingRate ==
    /\ venue = "Binance"
    /\ Constructed
    /\ tasks = <<>>
    /\ \E symbol \in QuerySymbols(profile) :
        LET norm_symbol == normalize_symbol(symbol)
            op == "get_funding_rate"
        IN \/ /\ Store(Self) /\ ev' = NoEv
              /\ \E e \in ErrorsOf(profile) : result' = Raised(op, e)
           \/ \E nxtField \in VenueNext(profile, norm_symbol),
                fields_ok \in FieldsOf(profile) :
                  /\ nxtField = Bad => fields_ok
                  /\ BinanceRateBody(Self, norm_symbol, nxtField, fields_ok)
    /\ UNCHANGED <<venue, profile, tasks>>

\* ------------------------------------------------------------ bulk poll
\* asyncio.Semaphore(5) / asyncio.Semaphore(3)
AsterSemaphore == 5

BinanceSemaphore == 3

\* Variant of acquire that admits every task (C21 depends on the semaphore
\* admitting no more than its limit).
acquire_unbounded(i, limit) == "valid"

\* async with semaphore, for task i of the gather: the first `limit` tasks
\* get in at once and suspend on their validity request, the others wait
acquire(i, limit) == IF i <= limit THEN "valid" ELSE "wait"

\* Variant of release that keeps the permit (C34 depends on every exit of
\* an enrich task giving its permit back).
release_held(ts) == ts

\* async with semaphore, on the way out of the block (return or exception):
\* the permit goes to the first of the tasks waiting for one
release(ts) ==
    LET waiting == {j \in DOMAIN ts : ts[j].pc = "wait"}
    IN IF waiting = {} THEN ts
       ELSE [ts EXCEPT ![CHOOSE j \in waiting :
                            \A k \in waiting : j <= k].pc = "valid"]

\* An enrich task: the item's symbol, where the task is ("wait" before the
\* semaphore, "valid" inside it awaiting the validity response, "done"), and
\* what it returned ("record", "none") or that it raised.
NoOut == [kind |-> "pending", nextFundingTime |-> None, interval_hours |-> None]

OutNone == [kind |-> "none", nextFundingTime |-> None, interval_hours |-> None]

OutRaised == [kind |-> "raised", nextFundingTime |-> None, interval_hours |-> None]

OutRecord(nxtField, interval_hours) ==
    [kind |-> "record", nextFundingTime |-> emitted_next(nxtField),
     interval_hours |-> interval_hours]

Running == [op |-> "get_all_funding_rates", status |-> "running",
            error |-> "", records |-> <<>>]

AllDone == \A i \in DOMAIN tasks : tasks[i].pc = "done"

AnyRaised == \E i \in DOMAIN tasks : tasks[i].out.kind = "raised"

InSection == {i \in DOMAIN tasks : tasks[i].pc = "valid"}

RECURSIVE Collect(_, _)
\* the records of the finished tasks, in payload order
Collect(ts, exchange) ==
    IF ts = <<>> THEN <<>>
    ELSE LET t == Head(ts)
             rest == Collect(Tail(ts), exchange)
         IN IF t.out.kind = "record"
            THEN <<[exchange |-> exchange, symbol |-> t.symbol,
                    nextFundingTime |-> t.out.nextFundingTime,
                    interval_hours |-> t.out.interval_hours]>> \o rest
            ELSE rest

\* Variant of aster_flush that does not save the ledger (C20 depends on the
\* flush saving every cache).
aster_flush_without_ledger(self) == save_invalid_cache(save_cache(self))

\* Aster.get_all_funding_rates: the flush after gather, lines 303-306
aster_flush(self) == save_invalid_cache(save_last_next(save_cache(self)))

\* Binance.get_all_funding_rates: the flush after gather, lines 278-280
binance_flush(self) == save_last_next(save_cache(self))

\* Aster.get_all_funding_rates up to gather: the primary request, then every
\* enrich task runs to its first suspension (the first AsterSemaphore of them
\* enter the semaphore and send their validity request).
AsterBulkStart ==
    /\ venue = "Aster"
    /\ Constructed
    /\ tasks = <<>>
    /\ ev' = NoEv
    /\ \/ /\ Store(Self) /\ tasks' = <<>>
          /\ \E e \in ErrorsOf(profile) :
                 result' = Raised("get_all_funding_rates", e)
       \/ \E payload \in BulkPayloads(profile) :
            IF payload = <<>>
            THEN /\ Store(aster_flush(Self)) /\ tasks' = <<>>
                 /\ result' = Returned("get_all_funding_rates", <<>>)
            ELSE /\ Store(Self)
                 /\ tasks' = [i \in DOMAIN payload |->
                                [symbol |-> normalize_symbol(payload[i]),
                                 pc |-> acquire(i, AsterSemaphore),
                                 out |-> NoOut]]
                 /\ result' = Running
    /\ UNCHANGED <<venue, profile>>

\* enrich(item) resumes with the answer v to its validity request and runs to
\* its end without suspending again: lines 275-300
AsterEnrich(i) ==
    /\ venue = "Aster"
    /\ i \in DOMAIN tasks
    /\ tasks[i].pc = "valid"
    /\ LET symbol == tasks[i].symbol
           \* leaving the semaphore lets the first waiting task in
           finish(out) ==
               tasks' = release([tasks EXCEPT ![i].pc = "done", ![i].out = out])
       IN \E v \in ValidityOf(profile) :
           LET val == is_symbol_valid(Self, symbol, v)
           IN IF val.raised
              THEN Store(val.self) /\ ev' = Checked(symbol, v) /\ finish(OutRaised)
              ELSE IF ~val.ret
              THEN Store(val.self) /\ ev' = Checked(symbol, v) /\ finish(OutNone)
              ELSE \E nxtField \in VenueNext(profile, symbol),
                      fields_ok \in FieldsOf(profile) :
                    LET r == aster_bulk_resolve(val.self, symbol, nxtField)
                    IN /\ nxtField = Bad => fields_ok
                       /\ IF nxtField = Bad
                          THEN /\ Store(val.self) /\ ev' = Checked(symbol, v)
                               /\ finish(OutRaised)
                          ELSE /\ Store(r.self)
                               /\ ev' = [Resolved("bulk", symbol, nxtField, r)
                                            EXCEPT !.validity = v]
                               /\ finish(IF fields_ok
                                         THEN OutRecord(nxtField, r.interval_hours)
                                         ELSE OutRaised)
    /\ UNCHANGED <<venue, profile, result>>

\* gather() delivers the results: flush and return, lines 302-306
AsterGatherReturn ==
    /\ venue = "Aster"
    /\ tasks # <<>> /\ AllDone /\ ~AnyRaised
    /\ Store(aster_flush(Self))
    /\ ev' = NoEv
    /\ result' = Returned("get_all_funding_rates", Collect(tasks, "Aster"))
    /\ tasks' = <<>>
    /\ UNCHANGED <<venue, profile>>

\* gather() re-raises the first exception of a task; the flush is skipped and
\* the session closes under the tasks still in flight
AsterGatherRaise ==
    /\ venue = "Aster"
    /\ tasks # <<>> /\ AnyRaised
    /\ Store(Self)
    /\ ev' = NoEv
    /\ result' = Raised("get_all_funding_rates", "task")
    /\ tasks' = <<>>
    /\ UNCHANGED <<venue, profile>>

\* Binance.get_all_funding_rates up to gather
BinanceBulkStart ==
    /\ venue = "Binance"
    /\ Constructed
    /\ tasks = <<>>
    /\ ev' = NoEv
    /\ \/ /\ Store(Self) /\ tasks' = <<>>
          /\ \E e \in ErrorsOf(profile) :
                 result' = Raised("get_all_funding_rates", e)
       \/ \E payload \in BulkPayloads(profile) :
            IF payload = <<>>
            THEN /\ Store(binance_flush(Self)) /\ tasks' = <<>>
                 /\ result' = Returned("get_all_funding_rates", <<>>)
            ELSE /\ Store(Self)
                 /\ tasks' = [i \in DOMAIN payload |->
                                [symbol |-> normalize_symbol(payload[i]),
                                 pc |-> "wait", out |-> NoOut]]
                 /\ result' = Running
    /\ UNCHANGED <<venue, profile>>

\* enrich(item) never suspends inside the semaphore: the tasks run one after
\* the other, in payload order, each from acquire to release: lines 253-275
BinanceEnrich(i) ==
    /\ venue = "Binance"
    /\ i \in DOMAIN tasks
    /\ tasks[i].pc = "wait"
    /\ \A j \in DOMAIN tasks : j < i => tasks[j].pc = "done"
    /\ Cardinality(InSection) < BinanceSemaphore
    /\ LET symbol == tasks[i].symbol
           finish(out) == tasks' = [tasks EXCEPT ![i].pc = "done", ![i].out = out]
       IN \E nxtField \in VenueNext(profile, symbol),
             fields_ok \in FieldsOf(profile) :
            LET r == binance_bulk_resolve(Self, symbol, nxtField)
            IN /\ nxtField = Bad => fields_ok
               /\ IF nxtField = Bad
                  THEN Store(Self) /\ ev' = NoEv /\ finish(OutRaised)
                  ELSE /\ Store(r.self)
                       /\ ev' = Resolved("bulk", symbol, nxtField, r)
                       /\ finish(IF fields_ok
                                 THEN OutRecord(nxtField, r.interval_hours)
                                 ELSE OutRaised)
    /\ UNCHANGED <<venue, profile, result>>

\* lines 277-280
BinanceGatherReturn ==
    /\ venue = "Binance"
    /\ tasks # <<>> /\ AllDone /\ ~AnyRaised
    /\ Store(binance_flush(Self))
    /\ ev' = NoEv
    /\ result' = Returned("get_all_funding_rates", Collect(tasks, "Binance"))
    /\ tasks' = <<>>
    /\ UNCHANGED <<venue, profile>>

\* every task has run before gather's exception reaches the caller
BinanceGatherRaise ==
    /\ venue = "Binance"
    /\ tasks # <<>> /\ AllDone /\ AnyRaised
    /\ Store(Self)
    /\ ev' = NoEv
    /\ result' = Raised("get_all_funding_rates", "task")
    /\ tasks' = <<>>
    /\ UNCHANGED <<venue, profile>>

\* ------------------------------------------------------------ Hyperliquid
\* A name is the sequence of its characters.
Lower == <<"a", "b", "c", "d", "e", "f", "g", "h", "i", "j", "k", "l", "m",
           "n", "o", "p", "q", "r", "s", "t", "u", "v", "w", "x", "y", "z">>

Upper == <<"A", "B", "C", "D", "E", "F", "G", "H", "I", "J", "K", "L", "M",
           "N", "O", "P", "Q", "R", "S", "T", "U", "V", "W", "X", "Y", "Z">>

\* str.upper()
upper(s) ==
    [i \in DOMAIN s |->
        IF \E k \in DOMAIN Lower : Lower[k] = s[i]
        THEN Upper[CHOOSE k \in DOMAIN Lower : Lower[k] = s[i]]
        ELSE s[i]]

\* s.split(":", 1)[1] if ":" in s else s
strip_namespace(s) ==
    LET colons == {i \in DOMAIN s : s[i] = ":"}
    IN IF colons = {} THEN s
       ELSE SubSeq(s, (CHOOSE i \in colons : \A k \in colons : i <= k) + 1,
                   Len(s))

\* s.endswith(suffix)
endswith(s, suffix) ==
    /\ Len(s) >= Len(suffix)
    /\ SubSeq(s, Len(s) - Len(suffix) + 1, Len(s)) = suffix

USDT == <<"U", "S", "D", "T">>

USD == <<"U", "S", "D">>

\* coin names of the two universes (default perps, dex=xyz): BTC, eth,
\* WUSDT, xyz:NVDA, xyz:BTC, xyz:EURUSD
HyperliquidCoins ==
    {<<"B", "T", "C">>, <<"e", "t", "h">>, <<"W", "U", "S", "D", "T">>,
     <<"x", "y", "z", ":", "N", "V", "D", "A">>,
     <<"x", "y", "z", ":", "B", "T", "C">>,
     <<"x", "y", "z", ":", "E", "U", "R", "U", "S", "D">>}

\* Hyperliquid._coin_to_symbol: upper case, namespace prefix stripped, USDT
\* appended unless the name ends in USDT or USD
coin_to_symbol(coin) ==
    LET c == strip_namespace(upper(coin))
    IN IF endswith(c, USDT) \/ endswith(c, USD) THEN c ELSE c \o USDT

\* Hyperliquid._symbol_to_coin: upper case, namespace prefix stripped, a
\* trailing USDT or else a trailing USD cut off
symbol_to_coin(symbol) ==
    LET s == strip_namespace(upper(symbol))
    IN IF endswith(s, USDT) THEN SubSeq(s, 1, Len(s) - 4)
       ELSE IF endswith(s, USD) THEN SubSeq(s, 1, Len(s) - 3)
       ELSE s

\* name.upper() with the namespace stripped, lines 53-57
coin_name(coin) == strip_namespace(upper(coin))

\* symbols a caller asks get_funding_rate for: btcusdt, ETHUSDT, NVDAUSDT,
\* xyz:NVDA, EURUSD, WUSDT
HyperliquidQueries ==
    {<<"b", "t", "c", "u", "s", "d", "t">>,
     <<"E", "T", "H", "U", "S", "D", "T">>,
     <<"N", "V", "D", "A", "U", "S", "D", "T">>,
     <<"x", "y", "z", ":", "N", "V", "D", "A">>,
     <<"E", "U", "R", "U", "S", "D">>,
     <<"W", "U", "S", "D", "T">>}

\* what _fetch_meta_and_ctx returns for one dex: "error" (non-200 or an
\* unexpected structure: it raises) or the universe's coin names
HyperliquidUniverses(dex) ==
    IF dex = "default"
    THEN {<<>>, <<<<"B", "T", "C">>>>, <<<<"B", "T", "C">>, <<"e", "t", "h">>>>,
          <<<<"W", "U", "S", "D", "T">>>>}
    ELSE {<<>>, <<<<"x", "y", "z", ":", "N", "V", "D", "A">>>>,
          <<<<"x", "y", "z", ":", "B", "T", "C">>,
            <<"x", "y", "z", ":", "N", "V", "D", "A">>>>,
          <<<<"x", "y", "z", ":", "E", "U", "R", "U", "S", "D">>>>}

RECURSIVE hl_records(_, _)
\* lines 78-98: one record per symbol not yet seen, interval_hours = 1
hl_records(names, seen) ==
    IF names = <<>> THEN <<>>
    ELSE LET symbol == coin_to_symbol(Head(names))
         IN IF symbol \in seen THEN hl_records(Tail(names), seen)
            ELSE <<[exchange |-> "Hyperliquid", symbol |-> symbol,
                    nextFundingTime |-> None, interval_hours |-> H(1)]>>
                 \o hl_records(Tail(names), seen \cup {symbol})

\* Hyperliquid.get_all_funding_rates
HyperliquidGetAllFundingRates ==
    /\ venue = "Hyperliquid"
    /\ \/ \E e \in {"API error", "payload"} :
            result' = Raised("get_all_funding_rates", e)
       \/ \E u1 \in HyperliquidUniverses("default"), u2 \in HyperliquidUniverses("xyz") :
            result' = Returned("get_all_funding_rates", hl_records(u1 \o u2, {}))
    /\ ev' = NoEv
    /\ Store(Self)
    /\ UNCHANGED <<venue, profile, tasks>>

\* Hyperliquid.get_funding_rate(symbol)
HyperliquidGetFundingRate ==
    /\ venue = "Hyperliquid"
    /\ \/ \E e \in {"API error", "payload"} :
            result' = Raised("get_funding_rate", e)
       \/ \E symbol \in HyperliquidQueries,
             u1 \in HyperliquidUniverses("default"),
             u2 \in HyperliquidUniverses("xyz") :
            LET coin == symbol_to_coin(symbol)
                names == u1 \o u2
                hits == {i \in DOMAIN names : coin_name(names[i]) = coin}
                first == CHOOSE i \in hits : \A j \in hits : i <= j
            IN result' =
                 IF hits = {} THEN Raised("get_funding_rate", "not found")
                 ELSE Returned("get_funding_rate",
                        <<[exchange |-> "Hyperliquid",
                           symbol |-> coin_to_symbol(names[first]),
                           nextFundingTime |-> None, interval_hours |-> H(1)]>>)
    /\ ev' = NoEv
    /\ Store(Self)
    /\ UNCHANGED <<venue, profile, tasks>>

\* ------------------------------------------------------------ Paradex
ParadexMarkets == {"BTC-USD-PERP", "ETH-USD-PERP"}

\* Paradex._to_market_symbol on the symbols a caller asks for
to_market_symbol(symbol) ==
    CASE symbol \in {"btcusdt", "BTCUSDT", "BTC-USD"} -> "BTC-USD-PERP"
      [] symbol = "ETHUSDT" -> "ETH-USD-PERP"

\* Paradex._market_symbol_to_symbol on ParadexMarkets
market_symbol_to_symbol(market_symbol) ==
    CASE market_symbol = "BTC-USD-PERP" -> "BTCUSDT"
      [] market_symbol = "ETH-USD-PERP" -> "ETHUSDT"

\* the funding_period_hours field of a market: absent (None), zero,
\* unparseable (Bad), or a number of hours (0.5, 1, 8, 24)
PeriodInputs == {None, 0, Bad, Frac(5000), H(1), H(8), H(24)}

\* lines 64-67: float(item.get("funding_period_hours") or 8), 8.0 on error
funding_period(field) ==
    IF field = None \/ field = 0 THEN H(8)
    ELSE IF field = Bad THEN H(8)
    ELSE field

\* Paradex._fetch_markets: what /v1/markets lists, as market -> field
ParadexListings ==
    UNION {[ms -> PeriodInputs] : ms \in SUBSET ParadexMarkets}

fetch_markets(listing) == [m \in DOMAIN listing |-> funding_period(listing[m])]

\* summary items: <<market symbol, whether funding_rate is present and parses>>
ParadexSummaries ==
    UNION {[1..n -> ParadexMarkets \X BOOLEAN] : n \in 0..MaxItems}

RECURSIVE paradex_records(_, _)
\* Paradex.get_all_funding_rates, lines 107-132
paradex_records(summary, intervals) ==
    IF summary = <<>> THEN <<>>
    ELSE LET item == Head(summary)
             interval_hours == Get(intervals, item[1])
             rest == paradex_records(Tail(summary), intervals)
         IN IF interval_hours = None \/ ~item[2] THEN rest
            ELSE <<[exchange |-> "Paradex",
                    symbol |-> market_symbol_to_symbol(item[1]),
                    nextFundingTime |-> None,
                    interval_hours |-> interval_hours]>> \o rest

ParadexGetAllFundingRates ==
    /\ venue = "Paradex"
    /\ \/ \E e \in {"API error", "transport"} :
            result' = Raised("get_all_funding_rates", e)
       \/ \E listing \in ParadexListings, summary \in ParadexSummaries :
            result' = Returned("get_all_funding_rates",
                               paradex_records(summary, fetch_markets(listing)))
    /\ ev' = NoEv
    /\ Store(Self)
    /\ UNCHANGED <<venue, profile, tasks>>

\* Paradex.get_funding_rate(symbol), lines 82-99
ParadexGetFundingRate ==
    /\ venue = "Paradex"
    /\ \/ \E e \in {"API error", "transport", "not found"} :
            result' = Raised("get_funding_rate", e)
       \/ \E symbol \in {"btcusdt", "BTC-USD", "ETHUSDT"},
             listing \in ParadexListings :
            LET market_symbol == to_market_symbol(symbol)
                interval_hours == Get(fetch_markets(listing), market_symbol)
            IN result' = Returned("get_funding_rate",
                   <<[exchange |-> "Paradex",
                      symbol |-> market_symbol_to_symbol(market_symbol),
                      nextFundingTime |-> None,
                      interval_hours |-> interval_hours]>>)
    /\ ev' = NoEv
    /\ Store(Self)
    /\ UNCHANGED <<venue, profile, tasks>>

\* ------------------------------------------------------------ construction
\* Contents of the three files when the adapter is constructed:
\* <<intervals, last_next, invalid symbols>>.  Keys may be lower case, interval
\* values out of range (12 h), custom (2.5 h) or no number, ledger values
\* unparseable, invalid-symbol items no strings.
InitFiles(p) ==
    IF p = "engine"
    THEN {<<EmptyDict, EmptyDict, {}>>,
          <<[k \in {"btcusdt"} |-> H(4)], [k \in {"BTCUSDT"} |-> 0], {}>>,
          <<[k \in {"BTCUSDT"} |-> Frac(25000)], [k \in {"btcusdt"} |-> H(20)], {}>>,
          <<[k \in {"BTCUSDT"} |-> H(12)], [k \in {"BTCUSDT"} |-> 0], {}>>}
    ELSE IF p \in {"load", "overload"} THEN {<<EmptyDict, EmptyDict, {}>>}
    ELSE IF p \in Schedules
    THEN {<<EmptyDict, EmptyDict, {}>>,
          <<[k \in {"btcusdt"} |-> H(4)], EmptyDict, {}>>,
          <<[k \in {"BTCUSDT"} |-> Frac(25000)], EmptyDict, {}>>,
          <<[k \in {"BTCUSDT"} |-> H(12)], EmptyDict, {}>>}
    ELSE {<<EmptyDict, EmptyDict, {}>>,
          <<[k \in {"BTCUSDT", "ethusdt"} |-> IF k = "BTCUSDT" THEN H(4) ELSE H(12)],
            [k \in {"btcusdt", "ETHUSDT"} |-> IF k = "btcusdt" THEN 0 ELSE Bad],
            {"ethusdt", NonString}>>,
          <<[k \in {"BTCUSDT", "ETHUSDT"} |-> IF k = "BTCUSDT" THEN Bad ELSE H(4)],
            [k \in {"BTCUSDT"} |-> 0], {}>>}

Venues == {"Aster", "Binance", "Hyperliquid", "Paradex"}

\* the adapters that keep caches
Caching == {"Aster", "Binance"}

\* __init__: each cache is loaded from its file, nothing is dirty; when
\* _load_cache raises there is no adapter
Init ==
    /\ venue \in Venues
    /\ profile \in IF venue \in Caching THEN Profiles ELSE {"faults"}
    /\ \E f \in IF venue \in Caching THEN InitFiles(profile)
                                     ELSE {<<EmptyDict, EmptyDict, {}>>} :
        /\ cache_file = f[1]
        /\ last_next_file = f[2]
        /\ invalid_cache_file = IF venue = "Aster" THEN f[3] ELSE {}
    /\ IF load_cache_raises(cache_file)
       THEN /\ interval_cache = EmptyDict
            /\ last_next_funding_map = EmptyDict
            /\ invalid_symbol_cache = {}
            /\ result = [op |-> "init", status |-> "raised",
                         error |-> "payload", records |-> <<>>]
       ELSE /\ interval_cache = load_cache(cache_file)
            /\ last_next_funding_map = load_last_next(last_next_file)
            /\ invalid_symbol_cache = load_invalid_cache(invalid_cache_file)
            /\ result = [op |-> "init", status |-> "ok", error |-> "",
                         records |-> <<>>]
    /\ cache_dirty = FALSE
    /\ last_next_dirty = FALSE
    /\ invalid_cache_dirty = FALSE
    /\ catchup_flags = [k \in {} |-> FALSE]
    /\ wrote = {}
    /\ tasks = <<>>
    /\ ev = NoEv

Next ==
    \/ AsterGetFundingRate
    \/ BinanceGetFundingRate
    \/ AsterBulkStart
    \/ \E i \in TaskIds : AsterEnrich(i)
    \/ AsterGatherReturn
    \/ AsterGatherRaise
    \/ BinanceBulkStart
    \/ \E i \in TaskIds : BinanceEnrich(i)
    \/ BinanceGatherReturn
    \/ BinanceGatherRaise
    \/ HyperliquidGetFundingRate
    \/ HyperliquidGetAllFundingRates
    \/ ParadexGetFundingRate
    \/ ParadexGetAllFundingRates

Spec == Init /\ [][Next]_vars

\* a step of the bulk call in flight: a task goes on, or gather hands over
BulkStep ==
    \/ \E i \in TaskIds : AsterEnrich(i)
    \/ AsterGatherReturn
    \/ AsterGatherRaise
    \/ \E i \in TaskIds : BinanceEnrich(i)
    \/ BinanceGatherReturn
    \/ BinanceGatherRaise

\* The event loop runs a task that is ready, and every request a task has
\* sent is answered or raises: while the bulk call can take a step, it does.
Fairness == WF_vars(BulkStep)

\* the venues under load, where tasks wait for a permit while others fail
LiveInit == Init /\ (venue \in Caching => profile \in {"load", "overload"})

LiveSpec == LiveInit /\ [][Next]_vars /\ Fairness

\* ------------------------------------------------------------ properties
\* the records the last finished operation returned
Records == {result.records[i] : i \in DOMAIN result.records}

\* the last step resolved an interval from an observation n with a ledger
\* entry p
Observed == ev.kind # "none" /\ ev.nxt # None /\ ev.prev # None

\* the interval of the last step's observation: new minus previous
Delta == ev.nxt - ev.prev

\* the standard value within 0.25 h of a delta d, None when there is none
AcceptedStandard(d) ==
    IF \E h \in {H(1), H(4), H(8)} : abs(h - d) < QUARTER_H
    THEN CHOOSE h \in {H(1), H(4), H(8)} : abs(h - d) < QUARTER_H
    ELSE None

\* inferred > cached > conservative default
Policy(inferred, cached) ==
    IF inferred # None THEN inferred
    ELSE IF cached # None THEN cached
    ELSE MAX_INTERVAL_H

\* C1: every record returned by get_funding_rate or get_all_funding_rates of
\* any adapter (Aster, Binance, Hyperliquid, Paradex) carries an
\* interval_hours that is a number in [1.0, 8.0].
C1_IntervalInRange ==
    \A r \in Records :
        /\ r.interval_hours # None
        /\ MIN_INTERVAL_H <= r.interval_hours
        /\ r.interval_hours <= MAX_INTERVAL_H

\* C2: in Aster and Binance, on the single-symbol path and on the bulk path,
\* the emitted interval_hours is the inferred interval when inference yields
\* one (and the interval cache is then set to it), otherwise the cached
\* interval when there is one, otherwise 8.0; it depends on the observation
\* and the prior state only, not on the path.
C2_ResolutionOrder ==
    [][ev'.kind \in {"single", "bulk"} =>
        LET symbol == ev'.symbol
            cached == get_cached_interval(Self, symbol)
            inferred ==
                IF venue = "Aster"
                THEN infer_interval(Self, symbol, ev'.nxt).ret
                ELSE infer_interval_from_payload(Self, symbol, ev'.nxt, cached).ret
        IN /\ ev'.interval_hours = Policy(inferred, cached)
           /\ inferred # None => Get(interval_cache', symbol) = inferred
           /\ result'.status = "ok" /\ ev'.kind = "single" =>
                 result'.records[1].interval_hours = Policy(inferred, cached)
           /\ \A i \in DOMAIN tasks :
                 tasks[i].pc # "done" /\ tasks'[i].out.kind = "record" =>
                     tasks'[i].out.interval_hours = Policy(inferred, cached)
       ]_vars

\* C2 witness: a bulk enrichment inferred 1 h for a symbol whose cached
\* interval was 4 h, emitted 1 h and set the cache to it.
C2_Witness ==
    /\ ev.kind = "bulk"
    /\ ev.cached = H(4)
    /\ ev.interval_hours = H(1)
    /\ Get(interval_cache, ev.symbol) = H(1)

\* C3: a delta greater than 8.25 h between the previous and the new
\* next-funding time is an anomaly: the cached interval the symbol had is
\* not overwritten, no interval is inferred (the emitted one is the cached
\* one, or the default), and the symbol's catch-up flag is set.
C3_LongDeltaIsAnomaly ==
    Observed /\ Delta > CEILING_H =>
        /\ Get(interval_cache, ev.symbol) = ev.cached
        /\ ev.interval_hours = Policy(None, ev.cached)
        /\ FlagSet(catchup_flags, ev.symbol)

\* C4: when a symbol's catch-up flag is set and the next advancing
\* observation has a delta within 0.25 h of a standard value, that one call
\* clears the flag, emits the standard value and sets the interval cache to it.
C4_RecoveryInOneCall ==
    Observed /\ ev.catchup /\ Delta > 0 /\ AcceptedStandard(Delta) # None =>
        /\ ~FlagSet(catchup_flags, ev.symbol)
        /\ ev.interval_hours = AcceptedStandard(Delta)
        /\ Get(interval_cache, ev.symbol) = AcceptedStandard(Delta)

\* C4 witness: a call found the flag set, observed a time exactly 8 h after
\* the ledger's, and left the flag cleared and the cache at 8 h.
C4_Witness ==
    /\ Observed /\ ev.catchup /\ Delta = H(8)
    /\ ev.symbol \in DOMAIN catchup_flags /\ ~catchup_flags[ev.symbol]
    /\ Get(interval_cache, ev.symbol) = H(8)

\* C5: when the ledger holds p and the observation reports n with n - p
\* exactly 1 h, 4 h or 8 h, the resolved interval is n - p, the ledger entry
\* becomes n and the interval cache entry becomes n - p.
C5_ExactDelta ==
    Observed /\ Delta \in {H(1), H(4), H(8)} =>
        /\ ev.interval_hours = Delta
        /\ Get(last_next_funding_map, ev.symbol) = ev.nxt
        /\ Get(interval_cache, ev.symbol) = Delta

\* C5 witness: the ledger held 4 h (in ms), the observation reported 8 h, and
\* the call emitted 4.0, moved the ledger to the observation and cached 4.0
\* over a different cached interval.
C5_Witness ==
    /\ Observed /\ ev.prev = H(4) /\ ev.nxt = H(8)
    /\ ev.cached # H(4)
    /\ ev.interval_hours = H(4)
    /\ Get(last_next_funding_map, ev.symbol) = H(8)
    /\ Get(interval_cache, ev.symbol) = H(4)

\* the step resolves the symbol the step before resolved, with the same
\* non-null next-funding time
Repeat ==
    /\ ev.kind # "none" /\ ev'.kind # "none"
    /\ ev'.symbol = ev.symbol
    /\ ev.nxt # None /\ ev'.nxt = ev.nxt

\* C6: the second of two consecutive resolutions of the same symbol with an
\* identical next-funding time performs no durable write: it sets no dirty
\* flag (interval cache, ledger) and the flush that follows writes no file.
C6_NoWriteOnRepeat ==
    [][Repeat =>
        /\ ~cache_dirty => ~cache_dirty'
        /\ ~last_next_dirty => ~last_next_dirty'
        /\ wrote' = {}
       ]_vars

\* C7: resolving the same symbol twice in a row with the same non-null
\* next-funding time emits, the second time, the interval the cache held
\* after the first (8.0 when it held none), and leaves the values of the
\* interval cache, the ledger and the catch-up flags as they were.
C7_RepeatKeepsValues ==
    [][Repeat =>
        /\ ev'.interval_hours = Policy(None, Get(interval_cache, ev.symbol))
        /\ interval_cache' = interval_cache
        /\ last_next_funding_map' = last_next_funding_map
        /\ catchup_flags' = catchup_flags
       ]_vars

\* C7 witness: a call observed the next-funding time an earlier call had put
\* in the ledger (6 h in ms, which no file holds), emitted the cached 4 h, and
\* cache and ledger still hold what they held.
C7_Witness ==
    /\ Observed /\ ev.prev = ev.nxt /\ ev.nxt = H(6)
    /\ ev.cached = H(4) /\ ev.interval_hours = H(4)
    /\ Get(interval_cache, ev.symbol) = H(4)
    /\ Get(last_next_funding_map, ev.symbol) = ev.nxt

\* C8: when the enrichment of one symbol of a bulk poll fails, only that
\* symbol is omitted: the poll does not raise and returns the records of the
\* other symbols.
C8_BulkDropsFailedSymbol ==
    [][tasks # <<>> /\ AnyRaised /\ tasks' = <<>> =>
        /\ result'.status = "ok"
        /\ result'.records = Collect(tasks, venue)
       ]_vars

\* C9: get_all_funding_rates of every adapter never raises to its caller:
\* when the primary endpoint answers non-200 or with an unexpected structure
\* the call returns a list of records.
C9_BulkNeverRaises ==
    result.op = "get_all_funding_rates" => result.status # "raised"

\* C10: when the validity request fails in another way than HTTP 400 or the
\* invalid-symbol marker (timeout, connection error, 5xx, malformed body),
\* _is_symbol_valid leaves the invalid-symbol set and its dirty flag as they
\* are and returns true exactly when the symbol is not in the set.
C10_ValidityFallsBack ==
    venue = "Aster" =>
        \A symbol \in SYMBOLS, resp \in {"5xx", "raise"} :
            LET val == is_symbol_valid(Self, symbol, resp)
            IN /\ ~val.raised
               /\ val.ret = (symbol \notin invalid_symbol_cache)
               /\ val.self.invalid_symbol_cache = invalid_symbol_cache
               /\ val.self.invalid_cache_dirty = invalid_cache_dirty

\* the venue rejected the symbol of the step: HTTP 400 or the marker
Rejected(e) == e.validity \in {"400", "marker"}

\* C11: when the venue confirms a symbol invalid (HTTP 400 or a body with
\* "Invalid symbol"), the symbol is in the invalid-symbol set afterwards;
\* get_funding_rate fails with the symbol-invalid error; the enrich task of
\* get_all_funding_rates returns None without raising and the poll's result
\* leaves that item out; the symbol's ledger and interval-cache entries are
\* as they were.
C11_RejectedSymbol ==
    [][/\ Rejected(ev') =>
            /\ ev'.symbol \in invalid_symbol_cache'
            /\ tasks = <<>> =>
                   result' = Raised("get_funding_rate", "symbol invalid")
            /\ tasks # <<>> =>
                   /\ result' = result
                   /\ \E i \in DOMAIN tasks :
                          /\ tasks[i].symbol = ev'.symbol
                          /\ tasks[i].pc = "valid"
                          /\ tasks'[i].pc = "done"
                          /\ tasks'[i].out = OutNone
            /\ Get(last_next_funding_map', ev'.symbol)
                   = Get(last_next_funding_map, ev'.symbol)
            /\ Get(interval_cache', ev'.symbol) = Get(interval_cache, ev'.symbol)
       /\ tasks # <<>> /\ ~AnyRaised /\ tasks' = <<>> =>
            /\ result'.status = "ok"
            /\ Len(result'.records)
                   = Cardinality({i \in DOMAIN tasks : tasks[i].out.kind = "record"})
      ]_vars

\* C11 witness: get_funding_rate was answered 400 for a symbol that has a
\* ledger entry and a cached interval, failed with the symbol-invalid error,
\* and the symbol is in the set.
C11_Witness ==
    /\ ev.validity = "400"
    /\ result = Raised("get_funding_rate", "symbol invalid")
    /\ ev.symbol \in invalid_symbol_cache
    /\ ev.symbol \in DOMAIN last_next_funding_map
    /\ ev.symbol \in DOMAIN interval_cache

\* C12: a symbol Aster marked invalid on a rejection is in the set a newly
\* constructed adapter loads from the file once the operation that observed
\* the rejection has finished: get_funding_rate has written the file when it
\* raises, get_all_funding_rates has written the whole set when it returns,
\* and in between a symbol leaves the set only on a 200 answer for it.
C12_InvalidSurvivesReload ==
    [][/\ Rejected(ev') /\ tasks = <<>> =>
            ev'.symbol \in load_invalid_cache(invalid_cache_file')
       /\ Rejected(ev') /\ tasks # <<>> => ev'.symbol \in invalid_symbol_cache'
       /\ \A symbol \in invalid_symbol_cache \ invalid_symbol_cache' :
            ev'.validity = "200" /\ ev'.symbol = symbol
       /\ venue = "Aster" /\ tasks # <<>> /\ tasks' = <<>>
            /\ result'.status = "ok" =>
                load_invalid_cache(invalid_cache_file') = invalid_symbol_cache'
      ]_vars

\* C12 witness: a bulk poll returned having written the invalid-symbol file,
\* and BTCUSDT, which no file held at construction, is in the set the file
\* loads to.
C12_Witness ==
    /\ result.op = "get_all_funding_rates" /\ result.status = "ok"
    /\ "invalid" \in wrote
    /\ "BTCUSDT" \in invalid_symbol_cache
    /\ "BTCUSDT" \in load_invalid_cache(invalid_cache_file)

\* C13: a 200 answer to the validity request makes _is_symbol_valid return
\* true (the operation goes on to the rate data); a symbol that was in the
\* invalid-symbol set is removed from it and the set is marked dirty; a
\* symbol that was not in it leaves the set and its dirty flag as they were.
C13_OkAnswerUnmarks ==
    [][ev'.validity = "200" =>
        LET symbol == ev'.symbol
            val == is_symbol_valid(Self, symbol, "200")
        IN /\ ~val.raised /\ val.ret
           /\ result'.error \notin {"symbol invalid", "transport"}
           /\ \A i \in DOMAIN tasks :
                  tasks[i].pc = "valid" /\ tasks'[i].pc = "done" =>
                      tasks'[i].out.kind # "none"
           /\ symbol \in invalid_symbol_cache =>
                  /\ invalid_symbol_cache' = invalid_symbol_cache \ {symbol}
                  /\ invalid_cache_dirty'
           /\ symbol \notin invalid_symbol_cache =>
                  /\ invalid_symbol_cache' = invalid_symbol_cache
                  /\ invalid_cache_dirty' = invalid_cache_dirty
       ]_vars

\* C13 witness: ETHUSDT, which the file lists as invalid, was answered 200 and
\* is no longer in the set, which is dirty.
C13_Witness ==
    /\ ev.validity = "200" /\ ev.symbol = "ETHUSDT"
    /\ "ethusdt" \in invalid_cache_file
    /\ "ETHUSDT" \notin invalid_symbol_cache
    /\ invalid_cache_dirty

\* C14: after an inference call whose observation carries a next-funding
\* time n, the symbol's ledger entry is n, whatever the call decided
\* (accepted, unchanged, non-positive delta, anomaly).
C14_LedgerFollowsObservation ==
    ev.kind # "none" /\ ev.nxt # None =>
        Get(last_next_funding_map, ev.symbol) = ev.nxt

\* C14 witness: a call flagged an anomaly (a 2 h delta, the flag was not set
\* before) and the ledger holds the observation.
C14_Witness ==
    /\ Observed /\ Delta = H(2)
    /\ ~ev.catchup /\ FlagSet(catchup_flags, ev.symbol)
    /\ Get(last_next_funding_map, ev.symbol) = ev.nxt

\* C15: when the new next-funding time is not later than the previous one
\* (delta <= 0, a backwards jump included), Aster and Binance learn nothing:
\* the emitted interval is the cached one (or the default), and the symbol's
\* cached interval and catch-up flag are as they were.
C15_NonPositiveDelta ==
    Observed /\ Delta <= 0 =>
        /\ ev.interval_hours = Policy(None, ev.cached)
        /\ Get(interval_cache, ev.symbol) = ev.cached
        /\ FlagSet(catchup_flags, ev.symbol) = ev.catchup

\* no delta can be inferred from the last step's observation: it carries no
\* next-funding time, the ledger had no entry, or the time has not moved
NothingToInfer == ev.nxt = None \/ ev.prev = None \/ ev.prev = ev.nxt

\* C16: the first observation of a brand-new symbol (no ledger entry, no
\* cached interval) resolves to exactly 8.0, writes no interval-cache entry
\* and records the observed time in the ledger; 8.0 also results whenever
\* there is no cached interval and no delta to infer from.
C16_ConservativeDefault ==
    ev.kind # "none" /\ ev.cached = None /\ NothingToInfer =>
        /\ ev.interval_hours = MAX_INTERVAL_H
        /\ ev.symbol \notin DOMAIN interval_cache
        /\ ev.nxt # None => Get(last_next_funding_map, ev.symbol) = ev.nxt

\* C16 witness: get_funding_rate met a symbol with no ledger entry and no
\* cached interval, observed 4 h (in ms), emitted 8.0, cached nothing and put
\* the observation in the ledger.
C16_Witness ==
    /\ ev.kind = "single" /\ ev.prev = None /\ ev.cached = None
    /\ ev.nxt = H(4) /\ ev.interval_hours = H(8)
    /\ ev.symbol \notin DOMAIN interval_cache
    /\ Get(last_next_funding_map, ev.symbol) = H(4)

\* the standard value within 0.001 h of a delta d, None when there is none
NearStandard(d) ==
    IF \E h \in {H(1), H(4), H(8)} : abs(h - d) <= Frac(10)
    THEN CHOOSE h \in {H(1), H(4), H(8)} : abs(h - d) <= Frac(10)
    ELSE None

\* C17: a delta within 0.001 h of 1, 4 or 8 resolves to exactly that standard
\* value, which is emitted and cached (7.9999 h -> 8.0, 4.0006 h -> 4.0,
\* 0.9996 h -> 1.0).
C17_SnapToStandard ==
    Observed /\ Delta > 0 /\ NearStandard(Delta) # None =>
        /\ ev.interval_hours = NearStandard(Delta)
        /\ Get(interval_cache, ev.symbol) = NearStandard(Delta)

\* C17 witness: a call observed a time 7.9999 h after the ledger's, emitted
\* 8.0 and cached it.
C17_Witness ==
    /\ Observed /\ Delta = Frac(79999)
    /\ ev.interval_hours = H(8)
    /\ Get(interval_cache, ev.symbol) = H(8)

\* every value of an interval map lies in [1.0, 8.0]
InRange(d) ==
    \A k \in DOMAIN d : MIN_INTERVAL_H <= d[k] /\ d[k] <= MAX_INTERVAL_H

\* C18: in every state of an Aster or Binance adapter, every value of the
\* in-memory interval cache lies in [1.0, 8.0], and so does every value of
\* the interval file the adapter has written: the load drops entries outside
\* the range and every write to the cache is clamped.
C18_CachedIntervalsInRange ==
    venue \in Caching /\ Constructed =>
        /\ InRange(interval_cache)
        /\ InRange(load_cache(cache_file))
        /\ "intervals" \in wrote => InRange(cache_file)

\* C18 witness: the file held an entry the load dropped, a 12 h delta was
\* accepted, and the file just written holds 8.0 for the symbol.
C18_Witness ==
    /\ "intervals" \in wrote
    /\ Observed /\ Delta = H(12) /\ ev.cached = None
    /\ Get(cache_file, ev.symbol) = H(8)
    /\ Get(interval_cache, ev.symbol) = H(8)

\* C19: constructing an adapter never fails because of what a cache file
\* holds: malformed entries (an interval that is no number, a ledger value
\* that is no integer, an invalid-symbol item that is no string) are skipped
\* and the other entries are loaded.
C19_ConstructionTolerant ==
    result.op = "init" =>
        /\ result.status = "ok"
        /\ DOMAIN interval_cache =
               {normalize_symbol(k) : k \in {x \in DOMAIN cache_file :
                    MIN_INTERVAL_H <= cache_file[x]
                        /\ cache_file[x] <= MAX_INTERVAL_H}}
        /\ DOMAIN last_next_funding_map =
               {normalize_symbol(k) : k \in {x \in DOMAIN last_next_file :
                    last_next_file[x] # Bad}}
        /\ invalid_symbol_cache =
               {normalize_symbol(x) : x \in invalid_cache_file \ {NonString}}

\* get_all_funding_rates of a caching adapter returns with this step
BulkReturns ==
    /\ venue \in Caching
    /\ result'.op = "get_all_funding_rates" /\ result'.status = "ok"

\* C20 (as stated): when get_all_funding_rates of Aster or Binance returns,
\* every cache has its dirty flag false and its file holds exactly the
\* in-memory state; a cache that was not dirty at the flush is not written.
C20_FilesEqualMemoryAtReturn ==
    [][BulkReturns =>
        /\ ~cache_dirty' /\ ~last_next_dirty' /\ ~invalid_cache_dirty'
        /\ cache_file' = interval_cache'
        /\ last_next_file' = last_next_funding_map'
        /\ invalid_cache_file' = invalid_symbol_cache'
        /\ ~cache_dirty => cache_file' = cache_file
        /\ ~last_next_dirty => last_next_file' = last_next_file
        /\ ~invalid_cache_dirty => invalid_cache_file' = invalid_cache_file
       ]_vars

\* C20 (amended): when get_all_funding_rates of Aster or Binance returns,
\* every cache has its dirty flag false and its file loads to exactly the
\* in-memory state; a cache that was dirty at the flush has been written with
\* exactly the in-memory state, and a cache that was not dirty is not written
\* (its file may hold entries the load drops or re-keys).
C20_FilesLoadToMemoryAtReturn ==
    [][BulkReturns =>
        /\ ~cache_dirty' /\ ~last_next_dirty' /\ ~invalid_cache_dirty'
        /\ load_cache(cache_file') = interval_cache'
        /\ load_last_next(last_next_file') = last_next_funding_map'
        /\ load_invalid_cache(invalid_cache_file') = invalid_symbol_cache'
        /\ cache_dirty => cache_file' = interval_cache' /\ "intervals" \in wrote'
        /\ last_next_dirty =>
               last_next_file' = last_next_funding_map' /\ "last_next" \in wrote'
        /\ invalid_cache_dirty =>
               invalid_cache_file' = invalid_symbol_cache' /\ "invalid" \in wrote'
        /\ ~cache_dirty => cache_file' = cache_file /\ "intervals" \notin wrote'
        /\ ~last_next_dirty =>
               last_next_file' = last_next_file /\ "last_next" \notin wrote'
        /\ ~invalid_cache_dirty =>
               invalid_cache_file' = invalid_cache_file /\ "invalid" \notin wrote'
       ]_vars

\* C20 witness: a bulk poll returned; its flush wrote the ledger, which was
\* dirty, and left alone the interval file, which holds an entry the load
\* dropped.
C20_Witness ==
    /\ result.op = "get_all_funding_rates" /\ result.status = "ok"
    /\ wrote = {"last_next"}
    /\ last_next_file = last_next_funding_map
    /\ ~cache_dirty /\ ~last_next_dirty /\ ~invalid_cache_dirty
    /\ cache_file # interval_cache
    /\ load_cache(cache_file) = interval_cache

\* the limit of the venue's semaphore
Limit == IF venue = "Aster" THEN AsterSemaphore ELSE BinanceSemaphore

\* the tasks that enter and leave the enrichment section within this step
PassedSection ==
    {i \in DOMAIN tasks \cap DOMAIN tasks' :
        tasks[i].pc = "wait" /\ tasks'[i].pc = "done"}

\* C21: during a bulk poll of Aster or Binance, at no time are more enrich
\* tasks inside the enrichment section than the semaphore's limit (5 in
\* Aster, 3 in Binance), however many items the payload has.
C21_SectionBounded ==
    [][(venue \in Caching) =>
        /\ Cardinality(InSection) <= Limit
        /\ Cardinality(InSection') + Cardinality(PassedSection) <= Limit
       ]_vars

\* C21 witness: a poll of Aster with more items than the limit; one task has
\* finished, five are inside the section and one still waits.
C21_Witness ==
    /\ venue = "Aster"
    /\ Len(tasks) > AsterSemaphore
    /\ Cardinality(InSection) = AsterSemaphore
    /\ \E i \in DOMAIN tasks : tasks[i].pc = "done"

\* the symbols this step removes from the invalid-symbol set
Unmarked == invalid_symbol_cache \ invalid_symbol_cache'

\* C22: no step of an Aster or Binance adapter removes a key from the
\* interval cache or from the ledger; the only removal is of a symbol from
\* the invalid-symbol set, by the step in which the venue answered 200 to
\* the validity request for that symbol.
C22_KeysOnlyGrow ==
    [][(venue \in Caching) =>
        /\ DOMAIN interval_cache \subseteq DOMAIN interval_cache'
        /\ DOMAIN last_next_funding_map \subseteq DOMAIN last_next_funding_map'
        /\ Unmarked \subseteq {ev'.symbol}
        /\ Unmarked # {} => ev'.validity = "200"
       ]_vars

\* C22 witness: BTCUSDT has an interval, both symbols have a ledger entry,
\* and the last step took ETHUSDT out of the invalid-symbol set on a 200
\* answer.
C22_Witness ==
    /\ DOMAIN interval_cache = {"BTCUSDT"}
    /\ DOMAIN last_next_funding_map = SYMBOLS
    /\ ev.validity = "200" /\ ev.symbol = "ETHUSDT"
    /\ "ETHUSDT" \in load_invalid_cache(invalid_cache_file)
    /\ "ETHUSDT" \notin invalid_symbol_cache

\* d, clamped into [1, 8], is 0.25 h or more away from each of 1, 4 and 8
OffStandard(d) ==
    \A h \in {H(1), H(4), H(8)} : abs(clamp_hours(d) - h) >= QUARTER_H

\* C23: a positive delta that, clamped into [1, 8], is 0.25 h or more away
\* from each of 1, 4 and 8 is an anomaly: the symbol's cached interval is
\* what it was, its catch-up flag is set, and the emitted interval is the
\* old cached value, 8.0 when there is none.
C23_OffStandardIsAnomaly ==
    (venue \in Caching /\ Observed /\ Delta > 0 /\ OffStandard(Delta)) =>
        /\ Get(interval_cache, ev.symbol) = ev.cached
        /\ FlagSet(catchup_flags, ev.symbol)
        /\ ev.interval_hours =
               IF ev.cached = None THEN MAX_INTERVAL_H ELSE ev.cached

\* C23 witness: a 6 h delta met a cached 4.0 and no flag; 4.0 was emitted and
\* stays cached, and the flag is up.
C23_Witness ==
    /\ Observed /\ Delta = H(6)
    /\ ev.cached = H(4) /\ ~ev.catchup
    /\ ev.interval_hours = H(4)
    /\ Get(interval_cache, ev.symbol) = H(4)
    /\ FlagSet(catchup_flags, ev.symbol)

\* an enrich task of a bulk poll runs its compound update in this step
CompoundUpdate == venue \in Caching /\ tasks # <<>> /\ ev'.kind = "bulk"

\* C24: during a bulk poll the compound update of a task (read the cached
\* interval, read and overwrite the ledger entry, decide, write the interval
\* cache) is one step in which no other task touches the caches: it starts
\* from the caches as the tasks before it left them, changes the entries of
\* its own symbol only, and leaves its observation in the ledger, so no
\* update of another task is lost.
C24_CompoundUpdateAtomic ==
    [][CompoundUpdate =>
        /\ \A s \in SYMBOLS \ {ev'.symbol} :
              /\ Get(last_next_funding_map', s) = Get(last_next_funding_map, s)
              /\ Get(interval_cache', s) = Get(interval_cache, s)
        /\ ev'.prev = Get(last_next_funding_map, ev'.symbol)
        /\ ev'.cached = get_cached_interval(Self, ev'.symbol)
        /\ ev'.nxt # None =>
               Get(last_next_funding_map', ev'.symbol) = ev'.nxt
        /\ Get(interval_cache', ev'.symbol) \in
               {Get(interval_cache, ev'.symbol), ev'.interval_hours}
        /\ Cardinality({i \in DOMAIN tasks : tasks[i] # tasks'[i]
                                               /\ tasks'[i].pc = "done"}) = 1
       ]_vars

\* C24 witness: two tasks of an Aster poll, for two symbols, were in flight
\* together and finished out of payload order; the ledger holds what each of
\* them observed.
C24_Witness ==
    /\ venue = "Aster" /\ Len(tasks) = 2
    /\ tasks[1].symbol # tasks[2].symbol
    /\ \A i \in DOMAIN tasks : tasks[i].out.kind = "record"
    /\ ev.kind = "bulk" /\ ev.symbol = tasks[1].symbol /\ ev.prev = None
    /\ \A i \in DOMAIN tasks :
          /\ tasks[i].out.nextFundingTime = H(8)
          /\ Get(last_next_funding_map, tasks[i].symbol) = H(8)

\* get_funding_rate of a caching adapter returns a record with this step
SingleReturns ==
    /\ venue \in Caching
    /\ tasks = <<>>
    /\ result'.op = "get_funding_rate" /\ result'.status = "ok"

\* C25: when get_funding_rate of Aster or Binance returns a record, every
\* change the call made in memory (interval cache, ledger, invalid-symbol
\* set) is in the corresponding file, and the call leaves no dirty flag set
\* that was not set before it.
C25_SingleCallFlushes ==
    [][SingleReturns =>
        /\ interval_cache' # interval_cache => cache_file' = interval_cache'
        /\ last_next_funding_map' # last_next_funding_map =>
               last_next_file' = last_next_funding_map'
        /\ invalid_symbol_cache' # invalid_symbol_cache =>
               invalid_cache_file' = invalid_symbol_cache'
        /\ cache_dirty' => cache_dirty
        /\ last_next_dirty' => last_next_dirty
        /\ invalid_cache_dirty' => invalid_cache_dirty
       ]_vars

\* C26: a symbol that is in the invalid-symbol set is not asked about again:
\* no step sends the per-symbol premiumIndex request for a symbol that is in
\* the set when the step begins.
C26_InvalidNotRequested ==
    [][(venue = "Aster" /\ ev'.validity # "") =>
           ev'.symbol \notin invalid_symbol_cache]_vars

\* C27: a venue that moves the symbol's next-funding time by exactly T hours
\* (T = 1, 4 or 8) at every settlement and is polled at least once between
\* two settlements, the ledger being empty at construction: from the first
\* poll that sees an advance on, every poll emits T and leaves T cached for
\* the symbol, whatever the interval file held.
C27_ScheduleLearned ==
    (venue \in Caching /\ profile \in Schedules
        /\ ev.kind # "none" /\ ev.nxt > FirstNext) =>
        /\ ev.interval_hours = Period(profile)
        /\ Get(interval_cache, ev.symbol) = Period(profile)

\* C27 witness: a venue settling every 4 hours, seen for the second time at
\* its third next-funding time; 4.0 is emitted and cached.
C27_Witness ==
    /\ profile = "every4h"
    /\ ev.nxt = FirstNext + 2 * H(4) /\ ev.prev = ev.nxt
    /\ ev.cached = H(4) /\ ev.interval_hours = H(4)
    /\ Get(cache_file, "BTCUSDT") = H(12)

\* C28: Hyperliquid's two symbol conversions are a round trip: every symbol
\* that get_all_funding_rates emits is upper case, and for every coin name c
\* it can have been made from, _symbol_to_coin takes it back to c in upper
\* case without its namespace prefix, which is the name get_funding_rate
\* looks for, so the symbol is found again.
C28_SymbolRoundTrip ==
    (venue = "Hyperliquid" /\ result.op = "get_all_funding_rates") =>
        \A r \in Records :
            /\ upper(r.symbol) = r.symbol
            /\ \A c \in HyperliquidCoins :
                  coin_to_symbol(c) = r.symbol =>
                      symbol_to_coin(r.symbol) = coin_name(c)

\* each cache whose dirty flag is false equals what load() returns from its
\* file
CleanMeansSaved ==
    /\ ~cache_dirty => load_cache(cache_file) = interval_cache
    /\ ~last_next_dirty =>
           load_last_next(last_next_file) = last_next_funding_map
    /\ ~invalid_cache_dirty =>
           load_invalid_cache(invalid_cache_file) = invalid_symbol_cache

\* C29: in every state of an Aster or Binance adapter and for each of its
\* caches, a false dirty flag means that the in-memory state is what load()
\* returns from the file: a step that changes a cache in memory sets its flag
\* or writes it to its file, a write puts the in-memory state into the file,
\* and the saves of a flush write nothing for a cache whose flag is false.
C29_CleanMeansSaved ==
    /\ (venue \in Caching /\ Constructed) => CleanMeansSaved
    /\ [][(venue \in Caching) =>
            /\ CleanMeansSaved'
            /\ interval_cache' # interval_cache =>
                   cache_dirty' \/ cache_file' = interval_cache'
            /\ last_next_funding_map' # last_next_funding_map =>
                   last_next_dirty' \/ last_next_file' = last_next_funding_map'
            /\ invalid_symbol_cache' # invalid_symbol_cache =>
                   invalid_cache_dirty'
                       \/ invalid_cache_file' = invalid_symbol_cache'
            /\ cache_file' # cache_file => cache_file' = interval_cache'
            /\ last_next_file' # last_next_file =>
                   last_next_file' = last_next_funding_map'
            /\ invalid_cache_file' # invalid_cache_file =>
                   invalid_cache_file' = invalid_symbol_cache'
            /\ (BulkReturns /\ ~cache_dirty) =>
                   cache_file' = cache_file /\ "intervals" \notin wrote'
            /\ (BulkReturns /\ ~last_next_dirty) =>
                   last_next_file' = last_next_file /\ "last_next" \notin wrote'
            /\ (BulkReturns /\ ~invalid_cache_dirty) =>
                   /\ invalid_cache_file' = invalid_cache_file
                   /\ "invalid" \notin wrote'
          ]_vars

\* C29 witness: a single-symbol call of Aster observed an advance; the
\* ledger was written and is clean, the interval cache differs from its file
\* and is dirty.
C29_Witness ==
    /\ venue = "Aster" /\ Observed /\ Delta = H(4)
    /\ wrote = {"last_next"} /\ ~last_next_dirty
    /\ load_last_next(last_next_file) = last_next_funding_map
    /\ cache_dirty
    /\ load_cache(cache_file) # interval_cache

Flipped(symbol) ==
    [Self EXCEPT !.catchup_flags =
                     Put(@, symbol, ~FlagSet(catchup_flags, symbol))]

\* the resolution the venue's adapter performs on the path `kind`
Resolve(self, kind, symbol, nxtField) ==
    IF venue = "Aster"
    THEN IF kind = "single" THEN aster_single_resolve(self, symbol, nxtField)
         ELSE aster_bulk_resolve(self, symbol, nxtField)
    ELSE IF kind = "single" THEN binance_single_resolve(self, symbol, nxtField)
         ELSE binance_bulk_resolve(self, symbol, nxtField)

\* C31: the catch-up flag never influences the resolved interval: whatever
\* the ledger, the interval cache and the observation of a resolution, the
\* same call made with the symbol's catch-up flag the other way round (set
\* for clear, clear for set) returns the same interval_hours and leaves the
\* same ledger and the same interval cache.
C31_FlagDecidesNothing ==
    [][ev'.kind \in {"single", "bulk"} =>
        LET symbol == ev'.symbol
            other == Resolve(Flipped(symbol), ev'.kind, symbol, ev'.nxt)
        IN /\ ev'.interval_hours = other.interval_hours
           /\ last_next_funding_map' = other.self.last_next_funding_map
           /\ interval_cache' = other.self.interval_cache
       ]_vars

\* C31 witness: a call found the flag set and a time 2 h after the ledger's;
\* as it would have with the flag clear, it emitted the cached 4.0, kept the
\* cache and moved the ledger.
C31_Witness ==
    /\ Observed /\ ev.catchup /\ Delta = H(2)
    /\ ev.cached = H(4)
    /\ ev.interval_hours = H(4)
    /\ Get(interval_cache, ev.symbol) = H(4)
    /\ Get(last_next_funding_map, ev.symbol) = ev.nxt

\* ------------------------------------------------------------ C32
Standard == {H(1), H(4), H(8)}

\* every cached interval is a standard value or the value the interval file
\* held for the symbol when the adapter loaded it
LoadedOrStandard ==
    \E f \in InitFiles(profile) :
        \A s \in DOMAIN interval_cache :
            \/ interval_cache[s] \in Standard
            \/ interval_cache[s] = Get(load_cache(f[1]), s)

\* a step of Aster or Binance emits and caches standard values, or the value
\* the cache already held for the symbol
NoCustomStep ==
    /\ \A s \in DOMAIN interval_cache' :
          \/ interval_cache'[s] \in Standard
          \/ interval_cache'[s] = Get(interval_cache, s)
    /\ ev'.kind \in {"single", "bulk"} =>
          LET carried == Standard \cup {Get(interval_cache, ev'.symbol)}
          IN /\ ev'.interval_hours \in carried
             /\ ev'.kind = "single" =>
                   \A k \in DOMAIN result'.records :
                       result'.records[k].interval_hours \in carried
             /\ \A i \in DOMAIN tasks :
                   tasks[i].pc # "done" /\ tasks'[i].out.kind = "record" =>
                       tasks'[i].out.interval_hours \in carried
    /\ result'.status = "ok" /\ tasks # <<>> =>
          \A k \in DOMAIN result'.records :
              \E i \in DOMAIN tasks :
                  /\ tasks[i].out.kind = "record"
                  /\ result'.records[k].interval_hours = tasks[i].out.interval_hours

\* C32: every interval that Aster or Binance emits in a record or writes to
\* the interval cache is 1.0, 4.0 or 8.0, or is a value that was already in
\* the interval cache when it was loaded from disk: no step creates a value
\* that is neither standard nor carried over, in the cache, in the record of
\* a single call, in the result of an enrichment or in the records a bulk call
\* returns.
C32_NoCustomInterval ==
    /\ [](venue \in Caching => LoadedOrStandard)
    /\ [][(venue \in Caching) => NoCustomStep]_vars

\* C32 witness: a custom 2.5 loaded from disk met a time 2 h after the
\* ledger's; the call emitted the 2.5 it had loaded and cached nothing new.
C32_Witness ==
    /\ Observed /\ Delta = H(2)
    /\ ev.cached = Frac(25000)
    /\ ev.interval_hours = Frac(25000)
    /\ Get(interval_cache, ev.symbol) = Frac(25000)
    /\ FlagSet(catchup_flags, ev.symbol)

\* ------------------------------------------------------------ C33
\* the last step's observation is not earlier than the ledger entry it met
\* (an absent field is no observation, an absent entry nothing to be earlier
\* than)
NotEarlier(e) == e.nxt = None \/ e.prev = None \/ e.nxt >= e.prev

\* the adapter's first call: its ledger is the one it loaded from disk
FirstCall == result.op = "init"

\* From the state the step started in, Aster's resolution and Binance's emit
\* the same interval and leave the same ledger entry, interval-cache value and
\* catch-up flag for the symbol, and the step did what its venue's does.
SameResolution ==
    LET symbol == ev'.symbol
        single == ev'.kind = "single"
        a == IF single THEN aster_single_resolve(Self, symbol, ev'.nxt)
             ELSE aster_bulk_resolve(Self, symbol, ev'.nxt)
        b == IF single THEN binance_single_resolve(Self, symbol, ev'.nxt)
             ELSE binance_bulk_resolve(Self, symbol, ev'.nxt)
        mine == IF venue = "Aster" THEN a ELSE b
    IN /\ a.interval_hours = b.interval_hours
       /\ Get(a.self.last_next_funding_map, symbol)
              = Get(b.self.last_next_funding_map, symbol)
       /\ Get(a.self.interval_cache, symbol) = Get(b.self.interval_cache, symbol)
       /\ FlagSet(a.self.catchup_flags, symbol)
              = FlagSet(b.self.catchup_flags, symbol)
       /\ ev'.interval_hours = mine.interval_hours
       /\ last_next_funding_map' = mine.self.last_next_funding_map
       /\ interval_cache' = mine.self.interval_cache
       /\ catchup_flags' = mine.self.catchup_flags

\* C33: for every sequence of observations of one symbol in which the
\* next-funding time never decreases, and starting from the same interval
\* cache and ledger (any ledger: the first observation meets the entry the
\* adapters loaded from disk), the Aster resolution and the Binance resolution
\* emit the same sequence of interval_hours and end with the same ledger
\* entry, interval-cache value and catch-up flag: a resolution that is the
\* adapter's first, or whose observation is not earlier than the one before,
\* has the same outcome in both.
C33_SameResolution ==
    [][(ev'.kind \in {"single", "bulk"} /\ (FirstCall \/ NotEarlier(ev')))
           => SameResolution]_vars

\* The two resolutions do agree on every observation that is not earlier
\* than the ledger entry it meets, the loaded one included.
SameResolutionFromLedger ==
    [][(ev'.kind \in {"single", "bulk"} /\ NotEarlier(ev')) => SameResolution]_vars

\* ------------------------------------------------------------ C34
\* a bulk call is in flight
BulkRunning == result.op = "get_all_funding_rates" /\ result.status = "running"

\* task i of the bulk call in flight has no permit yet
WaitsForPermit(i) == i \in DOMAIN tasks /\ tasks[i].pc = "wait"

\* C34: when every HTTP request eventually responds or raises, every
\* get_all_funding_rates call of Aster and Binance eventually returns or
\* raises, and no enrichment task waits forever for a permit: the permit is
\* released on every exit path of an enrichment task, failure included.
C34_BulkCallEnds ==
    /\ BulkRunning ~> ~BulkRunning
    /\ (\E i \in TaskIds : WaitsForPermit(i))
           ~> (\A i \in TaskIds : ~WaitsForPermit(i))

\* C34 witness: an Aster bulk call over more items than the semaphore has
\* permits, every one of them rejected by its validity request, has returned
\* (without a record): the task behind the permits got one and ended too.
C34_Witness ==
    /\ venue = "Aster" /\ profile = "overload"
    /\ MaxLoad > AsterSemaphore
    /\ result.op = "get_all_funding_rates" /\ result.status = "ok"
    /\ result.records = <<>>
    /\ "BTCUSDT" \in invalid_symbol_cache
    /\ tasks = <<>>

====
